---- MODULE Spec2Model ----
(***************************************************************************)
(* The LC-3 virtual machine of src/vanilla/vm.js (the `run` variant,       *)
(* lines 1-441): register file, memory with the memory-mapped keyboard,    *)
(* the instruction handlers, the trap routines, the image loader and the   *)
(* fetch loop, together with the part of the Node event loop the program   *)
(* depends on: 'data' events of process.stdin are delivered only while     *)
(* run() is suspended on a pending promise (the race of pollForKey or the  *)
(* once() of getChar).                                                     *)
(* The functions of the second variant (`main`, lines 443-888) that the    *)
(* tests of src/vanilla/test.js call directly are modelled at the end,     *)
(* with a specification of their own (SpecTest).                           *)
(***************************************************************************)
EXTENDS Integers, Naturals, Sequences, FiniteSets, TLC

VARIABLES
    registers,    \* Uint16Array(10): R0..R7, PC, COND
    memory,       \* Uint16Array(0xffff), kept sparse: absent index = 0
    running,      \* `let running` of run
    phase,        \* where run() stands: "load", "read", "poll", "getc", "halted", "exited"
    raddr,        \* argument of the pending readMemory call
    cont,         \* what the caller does with the value readMemory returns
    instruction,  \* `const instruction` of the current loop iteration
    out,          \* code units handed to process.stdout.write, in order
    loops,        \* iterations of the current PUTS/PUTSP while-loop
    listeners,    \* 'data' listeners registered on process.stdin, in order
    stdinQ,       \* chunks the console has delivered and Node has not emitted yet
    exitCode,     \* argument of process.exit, -1 while the process lives
    programBuffer,\* argument of run
    icount,       \* history: instructions completed
    iaddr,        \* history: address the current instruction was fetched from
    rval,         \* history: value returned by the last readMemory call
    pollKey,      \* history: first byte of the chunk the last poll obtained
    stored,       \* history: last ST/STR/STI write not overwritten since
    arrivals,     \* history: chunks delivered by the console so far
    link,         \* history: (A + 1) mod 2^16 of the last JSR at A, while R7 is not rewritten
    called,       \* the last direct call of an exported function: name, arguments, result
    mainRegisters \* `registers` of the main variant (line 501)

vars == <<registers, memory, running, phase, raddr, cont, instruction, out, loops,
          listeners, stdinQ, exitCode, programBuffer, icount, iaddr, rval, pollKey,
          stored, arrivals, link, called, mainRegisters>>

\* the variables the direct calls of exported functions work on
fnvars == <<called, mainRegisters>>

\* ------------------------------------------------------------------ bounds
MaxImageLen == 2
MaxSteps == 4
MaxArrivals == 1
MaxScan == 3

\* ------------------------------------------------- constants of the source
R0 == 0
R7 == 7
PC == 8
COND == 9
RegCount == 10

OP_BR == 0
OP_ADD == 1
OP_LD == 2
OP_ST == 3
OP_JSR == 4
OP_AND == 5
OP_LDR == 6
OP_STR == 7
OP_RTI == 8
OP_NOT == 9
OP_LDI == 10
OP_STI == 11
OP_JMP == 12
OP_RES == 13
OP_LEA == 14
OP_TRAP == 15

FL_POS == 1
FL_ZRO == 2
FL_NEG == 4

TRAP_GETC == 32
TRAP_OUT == 33
TRAP_PUTS == 34
TRAP_IN == 35
TRAP_PUTSP == 36
TRAP_HALT == 37

MR_KBSR == 65024
MR_KBDR == 65026

MemLength == 65535
PC_START == 12288
KeyReady == 32768
CtrlC == 3
WordMod == 65536

\* The JavaScript value `undefined`: what an out-of-range typed-array read
\* and a poll without a key produce. It stands outside the range of every
\* number the program computes (-65536 .. 131070).
Undefined == -1000000

\* 'Enter a character: '
Prompt == <<69, 110, 116, 101, 114, 32, 97, 32, 99, 104, 97, 114, 97, 99, 116, 101,
            114, 58, 32>>

\* ------------------------------------------------------- JavaScript numbers
\* ToInt32 of a value used by a bitwise operator: undefined becomes 0.
ToInt(v) == IF v = Undefined THEN 0 ELSE v

\* Conversion done by storing into a Uint16Array element.
ToUint16(v) == IF v = Undefined THEN 0 ELSE v % WordMod

Pow2(n) == 2 ^ n

\* x >> n for x >= 0
Shr(x, n) == ToInt(x) \div Pow2(n)

RECURSIVE BitAnd(_, _)
BitAnd(a, b) ==
    IF a = 0 \/ b = 0 THEN 0
    ELSE (IF a % 2 = 1 /\ b % 2 = 1 THEN 1 ELSE 0) + 2 * BitAnd(a \div 2, b \div 2)

RECURSIVE BitOr(_, _)
BitOr(a, b) ==
    IF a = 0 THEN b
    ELSE IF b = 0 THEN a
    ELSE (IF a % 2 = 1 \/ b % 2 = 1 THEN 1 ELSE 0) + 2 * BitOr(a \div 2, b \div 2)

\* String.fromCharCode(c): one UTF-16 code unit
fromCharCode(c) == ToUint16(c)

\* ------------------------------------------------------------------ memory
\* memory[a] = v on the typed array. An integer index outside 0..length-1 is
\* ignored; the key `undefined` is an ordinary property of the array object.
memSet(mem, a, v) ==
    IF a = Undefined
        THEN [k \in (DOMAIN mem) \cup {a} |-> IF k = a THEN v ELSE mem[k]]
    ELSE IF a < 0 \/ a >= MemLength
        THEN mem
    ELSE IF ToUint16(v) = 0
        THEN [k \in (DOMAIN mem) \ {a} |-> mem[k]]
    ELSE [k \in (DOMAIN mem) \cup {a} |-> IF k = a THEN ToUint16(v) ELSE mem[k]]

\* memory[a] read from the typed array
memGet(mem, a) ==
    IF a \in DOMAIN mem THEN mem[a]
    ELSE IF a >= 0 /\ a < MemLength THEN 0
    ELSE Undefined

writeMemory(mem, address, value) == memSet(mem, address, value)

\* registers[r] = v
setReg(regs, r, v) == [regs EXCEPT ![r] = ToUint16(v)]

\* ---------------------------------------------------------------- decoding
Opcode(instr) == Shr(instr, 12)
Bits(instr, lo, n) == Shr(instr, lo) % Pow2(n)
TrapCode(instr) == ToInt(instr) % 256

\* ---------------------------------------------------------------- utilities
\* signExtendSuffix that extends the whole word instead of its suffix
signExtendSuffixOfWord(instr, inputBitWidth) ==
    IF Shr(instr, inputBitWidth - 1) % 2 = 1
        THEN BitAnd(BitOr(ToInt(instr), 65535 * Pow2(inputBitWidth)), 65535)
        ELSE ToInt(instr)

signExtendSuffix(instr, inputBitWidth) ==
    LET mask == Pow2(inputBitWidth) - 1
        suffix == BitAnd(ToInt(instr), mask)
    IN  IF Shr(suffix, inputBitWidth - 1) % 2 = 1
            THEN BitAnd(BitOr(suffix, 65535 * Pow2(inputBitWidth)), 65535)
            ELSE suffix

\* updateCondFlag without its FL_NEG branch
updateCondFlagNoNeg(regs, register) ==
    IF regs[register] = 0 THEN [regs EXCEPT ![COND] = FL_ZRO]
    ELSE [regs EXCEPT ![COND] = FL_POS]

updateCondFlag(regs, register) ==
    IF regs[register] = 0 THEN [regs EXCEPT ![COND] = FL_ZRO]
    ELSE IF Shr(regs[register], 15) = 1 THEN [regs EXCEPT ![COND] = FL_NEG]
    ELSE [regs EXCEPT ![COND] = FL_POS]

\* -------------------------------------------------------------- operations
\* add that takes imm5 as an unsigned number
addZeroExtended(regs, instr) ==
    LET destReg == Bits(instr, 9, 3)
        inputReg == Bits(instr, 6, 3)
    IN  updateCondFlag(
            IF Bits(instr, 5, 1) = 1
                THEN setReg(regs, destReg, regs[inputReg] + Bits(instr, 0, 5))
                ELSE setReg(regs, destReg, regs[inputReg] + regs[Bits(instr, 0, 3)]),
            destReg)

add(regs, instr) ==
    LET destReg == Bits(instr, 9, 3)
        inputReg == Bits(instr, 6, 3)
        immFlag == Bits(instr, 5, 1)
        immValue == signExtendSuffix(instr, 5)
        secondInputReg == Bits(instr, 0, 3)
    IN  updateCondFlag(
            IF immFlag = 1
                THEN setReg(regs, destReg, regs[inputReg] + immValue)
                ELSE setReg(regs, destReg, regs[inputReg] + regs[secondInputReg]),
            destReg)

and(regs, instr) ==
    LET destReg == Bits(instr, 9, 3)
        inputReg == Bits(instr, 6, 3)
        immFlag == Bits(instr, 5, 1)
        immValue == signExtendSuffix(instr, 5)
        secondInputReg == Bits(instr, 0, 3)
    IN  updateCondFlag(
            IF immFlag = 1
                THEN setReg(regs, destReg, BitAnd(regs[inputReg], immValue))
                ELSE setReg(regs, destReg, BitAnd(regs[inputReg], regs[secondInputReg])),
            destReg)

\* ~x is -x - 1 on the 32-bit value; the typed array keeps its low 16 bits
not(regs, instr) ==
    LET destReg == Bits(instr, 9, 3)
        inputReg == Bits(instr, 6, 3)
    IN  updateCondFlag(setReg(regs, destReg, (0 - regs[inputReg]) - 1), destReg)

branch(regs, instr) ==
    LET condMask == Bits(instr, 9, 3)
        condFlag == regs[COND]
        shouldBranch == BitAnd(condMask, condFlag)
        offset == signExtendSuffix(instr, 9)
        newPC == BitAnd(regs[PC] + offset, 65535)
    IN  IF shouldBranch # 0 THEN setReg(regs, PC, newPC) ELSE regs

jump(regs, instr) ==
    LET baseRegister == Bits(instr, 6, 3)
    IN  setReg(regs, PC, regs[baseRegister])

\* jumpToSubroutine that saves the link after it has changed PC
jumpToSubroutineLinksTarget(regs, instr) ==
    LET offsetFlag == Bits(instr, 11, 1)
        newPC == BitAnd(regs[PC] + signExtendSuffix(instr, 11), 65535)
        jumped == IF offsetFlag = 1
                     THEN setReg(regs, PC, newPC)
                     ELSE setReg(regs, PC, regs[Bits(instr, 6, 3)])
    IN  setReg(jumped, R7, jumped[PC])

jumpToSubroutine(regs, instr) ==
    LET linked == setReg(regs, R7, regs[PC])
        offsetFlag == Bits(instr, 11, 1)
        offset == signExtendSuffix(instr, 11)
        newPC == BitAnd(linked[PC] + offset, 65535)
        baseRegister == Bits(instr, 6, 3)
    IN  IF offsetFlag = 1
            THEN setReg(linked, PC, newPC)
            ELSE setReg(linked, PC, linked[baseRegister])

loadEffectiveAddress(regs, instr) ==
    LET destReg == Bits(instr, 9, 3)
        offset == signExtendSuffix(instr, 9)
    IN  updateCondFlag(setReg(regs, destReg, BitAnd(regs[PC] + offset, 65535)), destReg)

\* a PC-relative address that keeps the carry out of bit 15
pcOffsetAddrUnmasked(regs, instr) == regs[PC] + signExtendSuffix(instr, 9)

\* the address the PC-relative handlers (LD, LDI, ST, STI) compute
pcOffsetAddr(regs, instr) == BitAnd(regs[PC] + signExtendSuffix(instr, 9), 65535)

\* the address LDR and STR compute
baseOffsetAddr(regs, instr) ==
    BitAnd(regs[Bits(instr, 6, 3)] + signExtendSuffix(instr, 6), 65535)

\* registers[destReg] = <value read>; updateCondFlag(destReg): the tail of
\* load, loadIndirect and loadWithOffset
loadValue(regs, destReg, value) == updateCondFlag(setReg(regs, destReg, value), destReg)

\* trapGetc that also sets the flags from R0
trapGetcFlags(regs, keyCode) == updateCondFlag(setReg(regs, R0, keyCode), R0)

\* registers[R0] = keyCode of trapGetc and of trapIn
trapGetc(regs, keyCode) == setReg(regs, R0, keyCode)

trapIn(regs, keyCode) == setReg(regs, R0, keyCode)

\* a fetch loop that leaves PC at the instruction's own address
advancePCSkipped(regs) == regs

\* registers[PC] += 1 of the fetch loop
advancePC(regs) == setReg(regs, PC, regs[PC] + 1)

\* case TRAP_HALT that forgets to clear the flag
trapHaltKeepsRunning(isRunning) == isRunning

\* running = false of case TRAP_HALT
trapHalt(isRunning) == FALSE

\* ------------------------------------------------------- the state of run
FetchCont == [kind |-> "fetch", reg |-> 0]

Cur ==
    [registers |-> registers, memory |-> memory, running |-> running, phase |-> phase,
     raddr |-> raddr, cont |-> cont, instruction |-> instruction, out |-> out,
     loops |-> loops, listeners |-> listeners, icount |-> icount, iaddr |-> iaddr,
     rval |-> rval, pollKey |-> pollKey, stored |-> stored, link |-> link]

Apply(m) ==
    /\ registers' = m.registers
    /\ memory' = m.memory
    /\ running' = m.running
    /\ phase' = m.phase
    /\ raddr' = m.raddr
    /\ cont' = m.cont
    /\ instruction' = m.instruction
    /\ out' = m.out
    /\ loops' = m.loops
    /\ listeners' = m.listeners
    /\ icount' = m.icount
    /\ iaddr' = m.iaddr
    /\ rval' = m.rval
    /\ pollKey' = m.pollKey
    /\ stored' = m.stored
    /\ link' = m.link

\* `await readMemory(address)`: the caller waits for the value
awaitRead(m, address, k) == [m EXCEPT !.phase = "read", !.raddr = address, !.cont = k]

\* the handler returned: back to `while (running)`, whose body starts with
\* readMemory(registers[PC])
complete(m) ==
    [m EXCEPT !.phase = IF m.running THEN "read" ELSE "halted",
              !.raddr = m.registers[PC],
              !.cont = FetchCont,
              !.icount = m.icount + 1,
              !.link = IF Opcode(m.instruction) = OP_JSR
                          THEN (m.iaddr + 1) % WordMod
                       ELSE IF /\ Opcode(m.instruction) \in
                                    {OP_ADD, OP_AND, OP_NOT, OP_LD, OP_LDI, OP_LDR, OP_LEA}
                               /\ Bits(m.instruction, 9, 3) = R7
                          THEN Undefined
                       ELSE m.link]

\* writeMemory(destAddr, registers[reg]) of store, storeIndirect, storeOffset
storeWord(m, destAddr, reg) ==
    [m EXCEPT !.memory = writeMemory(m.memory, destAddr, m.registers[reg]),
              !.stored = IF destAddr # Undefined
                            THEN [valid |-> TRUE, addr |-> destAddr, val |-> m.registers[reg]]
                            ELSE m.stored]

load(m, instr) ==
    awaitRead(m, pcOffsetAddr(m.registers, instr), [kind |-> "load", reg |-> Bits(instr, 9, 3)])

loadIndirect(m, instr) ==
    awaitRead(m, pcOffsetAddr(m.registers, instr), [kind |-> "ldi", reg |-> Bits(instr, 9, 3)])

loadWithOffset(m, instr) ==
    awaitRead(m, baseOffsetAddr(m.registers, instr), [kind |-> "load", reg |-> Bits(instr, 9, 3)])

store(m, instr) == storeWord(m, pcOffsetAddr(m.registers, instr), Bits(instr, 9, 3))

storeIndirect(m, instr) ==
    awaitRead(m, pcOffsetAddr(m.registers, instr), [kind |-> "sti", reg |-> Bits(instr, 9, 3)])

storeOffset(m, instr) == storeWord(m, baseOffsetAddr(m.registers, instr), Bits(instr, 9, 3))

\* `await once(process.stdin, 'data')` of getChar: a one-shot listener
getChar(m, k) ==
    [m EXCEPT !.phase = "getc", !.cont = [kind |-> k, reg |-> 0],
              !.listeners = Append(m.listeners, "once")]

trapOut(m) == [m EXCEPT !.out = Append(m.out, fromCharCode(m.registers[R0]))]

trapPuts(m) ==
    awaitRead([m EXCEPT !.loops = 0], m.registers[R0], [kind |-> "puts", reg |-> 0])

trapPutsp(m) ==
    awaitRead([m EXCEPT !.loops = 0], m.registers[R0], [kind |-> "putsp", reg |-> 0])

\* the body of trapPuts's while-loop, `character` just read at m.raddr
putsLoop(m, character) ==
    IF character # 0
        THEN awaitRead([m EXCEPT !.out = Append(m.out, fromCharCode(character)),
                                 !.loops = m.loops + 1],
                       m.raddr + 1, m.cont)
        ELSE complete(m)

\* the body of trapPutsp's while-loop
putspLoop(m, characterPair) ==
    LET char1 == BitAnd(ToInt(characterPair), 255)
        char2 == Shr(characterPair, 8)
        o1 == Append(m.out, fromCharCode(char1))
        o2 == IF char2 # 0 THEN Append(o1, fromCharCode(char2)) ELSE o1
    IN  IF characterPair # 0
            THEN awaitRead([m EXCEPT !.out = o2, !.loops = m.loops + 1], m.raddr + 1, m.cont)
            ELSE complete(m)

\* a default case that stops the machine
defaultCaseHalts(m) == [m EXCEPT !.running = FALSE]

\* `default: { break; }` of both switches
defaultCase(m) == m

\* case OP_TRAP of the switch
trap(m, instr) ==
    LET trapCode == TrapCode(instr)
    IN  CASE trapCode = TRAP_GETC -> getChar(m, "getc")
          [] trapCode = TRAP_HALT -> complete([m EXCEPT !.running = trapHalt(m.running)])
          [] trapCode = TRAP_IN -> getChar([m EXCEPT !.out = m.out \o Prompt], "in")
          [] trapCode = TRAP_OUT -> complete(trapOut(m))
          [] trapCode = TRAP_PUTS -> trapPuts(m)
          [] trapCode = TRAP_PUTSP -> trapPutsp(m)
          [] OTHER -> complete(defaultCase(m))

\* switch (opcode) of the fetch loop
execute(m, instr) ==
    LET opcode == Opcode(instr)
        regs == m.registers
    IN  CASE opcode = OP_ADD -> complete([m EXCEPT !.registers = add(regs, instr)])
          [] opcode = OP_AND -> complete([m EXCEPT !.registers = and(regs, instr)])
          [] opcode = OP_NOT -> complete([m EXCEPT !.registers = not(regs, instr)])
          [] opcode = OP_BR -> complete([m EXCEPT !.registers = branch(regs, instr)])
          [] opcode = OP_JMP -> complete([m EXCEPT !.registers = jump(regs, instr)])
          [] opcode = OP_JSR -> complete([m EXCEPT !.registers = jumpToSubroutine(regs, instr)])
          [] opcode = OP_LD -> load(m, instr)
          [] opcode = OP_LDI -> loadIndirect(m, instr)
          [] opcode = OP_LDR -> loadWithOffset(m, instr)
          [] opcode = OP_LEA ->
                complete([m EXCEPT !.registers = loadEffectiveAddress(regs, instr)])
          [] opcode = OP_ST -> complete(store(m, instr))
          [] opcode = OP_STI -> storeIndirect(m, instr)
          [] opcode = OP_STR -> complete(storeOffset(m, instr))
          [] opcode = OP_TRAP -> trap(m, instr)
          [] OTHER -> complete(defaultCase(m))

\* the loop body once readMemory(registers[PC]) has returned `value`
fetched(m, value) ==
    execute([m EXCEPT !.instruction = value,
                      !.iaddr = m.raddr,
                      !.registers = advancePC(m.registers)],
            value)

\* readMemory returned `value` to the caller recorded in m.cont
resume(m, value) ==
    LET m1 == [m EXCEPT !.rval = value]
        k == m.cont
    IN  CASE k.kind = "fetch" -> fetched(m1, value)
          [] k.kind = "load" ->
                complete([m1 EXCEPT !.registers = loadValue(m.registers, k.reg, value)])
          [] k.kind = "ldi" -> awaitRead(m1, value, [kind |-> "load", reg |-> k.reg])
          [] k.kind = "sti" -> complete(storeWord(m1, value, k.reg))
          [] k.kind = "puts" -> putsLoop(m1, value)
          [] k.kind = "putsp" -> putspLoop(m1, value)

\* ---------------------------------------------------------------- keyboard
\* a cleanup that calls removeAllListeners('data')
withoutAny(ls) == <<>>

\* what is left of the 'data' listeners once every one-shot wrapper is gone:
\* a wrapper removes itself when it fires, and pollForKey removes every
\* listener that has a .listener property
withoutOnce(ls) == SelectSeq(ls, LAMBDA l : l # "once")

\* pollForKey up to its await: once(process.stdin, 'data') raced with sleep(5)
pollForKey(m) == [m EXCEPT !.phase = "poll", !.listeners = Append(m.listeners, "once")]

\* readMemory(MR_KBSR) after pollForKey returned keyCode (undefined: no key)
readKeyboard(m, keyCode) ==
    LET hasKey == keyCode # Undefined /\ keyCode # 0
        mem1 == IF hasKey
                    THEN memSet(memSet(m.memory, MR_KBSR, KeyReady), MR_KBDR, keyCode)
                    ELSE memSet(m.memory, MR_KBSR, 0)
        overwritten == m.stored.addr = MR_KBSR \/ (hasKey /\ m.stored.addr = MR_KBDR)
        m1 == [m EXCEPT !.memory = mem1,
                        !.listeners = withoutOnce(m.listeners),
                        !.pollKey = keyCode,
                        !.stored = IF overwritten
                                      THEN [valid |-> FALSE, addr |-> 0, val |-> 0]
                                      ELSE m.stored]
    IN  resume(m1, memGet(mem1, m.raddr))

\* trapGetc / trapIn after getChar returned key[0]
getCharDone(m, keyCode) ==
    LET m1 == [m EXCEPT !.listeners = withoutOnce(m.listeners)]
    IN  IF m.cont.kind = "in"
            THEN complete([m1 EXCEPT !.out = Append(m.out, fromCharCode(keyCode)),
                                     !.registers = trapIn(m.registers, keyCode)])
            ELSE complete([m1 EXCEPT !.registers = trapGetc(m.registers, keyCode)])

\* ------------------------------------------------------------------ loader
readUInt16BE(buf, offset) == buf[offset + 1] * 256 + buf[offset + 2]

RECURSIVE loadImage(_, _, _, _)
loadImage(mem, buf, offset, memLocation) ==
    IF offset < Len(buf)
        THEN loadImage(writeMemory(mem, memLocation, readUInt16BE(buf, offset)),
                       buf, offset + 2, memLocation + 1)
        ELSE mem

\* ------------------------------------------------------------------ inputs
\* instruction and data words the program images are built from
Words ==
    { 4129,   \* 0x1021 ADD R0, R0, #1
      4159,   \* 0x103F ADD R0, R0, #-1
      20512,  \* 0x5020 AND R0, R0, #0
      37503,  \* 0x927F NOT R1, R1
      3585,   \* 0x0E01 BRnzp +1
      1025,   \* 0x0401 BRz +1
      4095,   \* 0x0FFF BRnzp -1
      49216,  \* 0xC040 JMP R1
      18433,  \* 0x4801 JSR +1
      9216,   \* 0x2400 LD R2, +0
      41984,  \* 0xA400 LDI R2, +0
      26239,  \* 0x667F LDR R3, R1, #-1
      58368,  \* 0xE400 LEA R2, +0
      57855,  \* 0xE1FF LEA R0, -1
      13312,  \* 0x3400 ST R2, +0
      46080,  \* 0xB400 STI R2, +0
      29823,  \* 0x747F STR R2, R1, #-1
      61472,  \* 0xF020 TRAP GETC
      61473,  \* 0xF021 TRAP OUT
      61474,  \* 0xF022 TRAP PUTS
      61475,  \* 0xF023 TRAP IN
      61476,  \* 0xF024 TRAP PUTSP
      61477,  \* 0xF025 TRAP HALT
      65024,  \* 0xFE00 the address of KBSR (as an instruction: TRAP x00)
      32768 } \* 0x8000 RTI

Origins == {PC_START}

Chunks == {<<0>>, <<CtrlC>>, <<65>>, <<65, 66>>}

RECURSIVE toBytes(_)
toBytes(ws) ==
    IF ws = <<>> THEN <<>>
    ELSE <<Head(ws) \div 256, Head(ws) % 256>> \o toBytes(Tail(ws))

WordSeqs == UNION {[1..n -> Words] : n \in 1..MaxImageLen}

Images == {toBytes(<<o>> \o ws) : o \in Origins, ws \in WordSeqs}

\* ----------------------------------------------------------------- actions
\* the state in which run(programBuffer) is called, for a set of images
InitRun(images) ==
    /\ programBuffer \in images
    /\ registers = [r \in 0..(RegCount - 1) |-> 0]
    /\ memory = <<>>
    /\ running = TRUE
    /\ phase = "load"
    /\ raddr = 0
    /\ cont = FetchCont
    /\ instruction = Undefined
    /\ out = <<>>
    /\ loops = 0
    /\ listeners = <<>>
    /\ stdinQ = <<>>
    /\ exitCode = -1
    /\ icount = 0
    /\ iaddr = 0
    /\ rval = Undefined
    /\ pollKey = Undefined
    /\ stored = [valid |-> FALSE, addr |-> 0, val |-> 0]
    /\ arrivals = 0
    /\ link = Undefined

\* no exported function has been called directly
NoCall == [fn |-> "none", args |-> <<>>, result |-> Undefined, count |-> 0]

InitCalls ==
    /\ called = NoCall
    /\ mainRegisters = [r \in 0..(RegCount - 1) |-> 0]

Init == InitRun(Images) /\ InitCalls

\* run up to its while-loop: the Ctrl-C listener, the loader, the reset of PC
Load ==
    /\ phase = "load"
    /\ Apply([Cur EXCEPT
            !.listeners = Append(listeners, "ctrlc"),
            !.memory = loadImage(memory, programBuffer, 2, readUInt16BE(programBuffer, 0)),
            !.registers = setReg(registers, PC, PC_START),
            !.running = TRUE,
            !.phase = "read",
            !.raddr = PC_START,
            !.cont = FetchCont])
    /\ UNCHANGED <<stdinQ, exitCode, programBuffer, arrivals>>
    /\ UNCHANGED fnvars

\* one readMemory call: it starts a keyboard poll, or returns memory[address]
\* to its caller, which runs to its next await
ReadMem ==
    /\ phase = "read"
    /\ cont.kind = "fetch" => icount < MaxSteps
    /\ cont.kind \in {"puts", "putsp"} => loops < MaxScan
    /\ IF raddr = MR_KBSR
          THEN Apply(pollForKey(Cur))
          ELSE Apply(resume(Cur, memGet(memory, raddr)))
    /\ UNCHANGED <<stdinQ, exitCode, programBuffer, arrivals>>
    /\ UNCHANGED fnvars

\* the console hands a chunk of bytes to the process
Arrive ==
    /\ phase # "exited"
    /\ arrivals < MaxArrivals
    /\ \E c \in Chunks : stdinQ' = Append(stdinQ, c)
    /\ arrivals' = arrivals + 1
    /\ UNCHANGED <<registers, memory, running, phase, raddr, cont, instruction, out,
                   loops, listeners, exitCode, programBuffer, icount, iaddr, rval,
                   pollKey, stored, link>>
    /\ UNCHANGED fnvars

\* process.stdin emits 'data': possible only while run is suspended on a
\* pending promise. The listeners run in the order they were added.
Deliver ==
    /\ phase \in {"poll", "getc"}
    /\ stdinQ # <<>>
    /\ stdinQ' = Tail(stdinQ)
    /\ LET data == Head(stdinQ)
       IN  IF (\E i \in 1..Len(listeners) : listeners[i] = "ctrlc") /\ data[1] = CtrlC
              THEN /\ phase' = "exited"
                   /\ exitCode' = 0
                   /\ UNCHANGED <<registers, memory, running, raddr, cont, instruction,
                                  out, loops, listeners, icount, iaddr, rval, pollKey,
                                  stored, link>>
              ELSE /\ IF phase = "poll"
                         THEN Apply(readKeyboard(Cur, data[1]))
                         ELSE Apply(getCharDone(Cur, data[1]))
                   /\ UNCHANGED exitCode
    /\ UNCHANGED <<programBuffer, arrivals>>
    /\ UNCHANGED fnvars

\* a race whose timer never resolves it
PollTimeoutLost == phase = "poll" /\ UNCHANGED vars

\* the sleep(5) of pollForKey wins the race
PollTimeout ==
    /\ phase = "poll"
    /\ Apply(readKeyboard(Cur, Undefined))
    /\ UNCHANGED <<stdinQ, exitCode, programBuffer, arrivals>>
    /\ UNCHANGED fnvars

\* process.exit(0) after the loop
Exit ==
    /\ phase = "halted"
    /\ phase' = "exited"
    /\ exitCode' = 0
    /\ UNCHANGED <<registers, memory, running, raddr, cont, instruction, out, loops,
                   listeners, stdinQ, programBuffer, icount, iaddr, rval, pollKey,
                   stored, arrivals, link>>
    /\ UNCHANGED fnvars

Next == Load \/ ReadMem \/ Arrive \/ Deliver \/ PollTimeout \/ Exit

Spec == Init /\ [][Next]_vars

\* ------------------------------------------------------------------ claims
\* the last fetched instruction has run to completion and none was fetched since
Completed == cont.kind = "fetch" /\ icount > 0

\* (address of the current instruction + 1) mod 2^16
NextAddr == (iaddr + 1) % WordMod

FlagOps == {OP_ADD, OP_AND, OP_NOT, OP_LD, OP_LDI, OP_LDR, OP_LEA}

NoFlagOps == {OP_BR, OP_JMP, OP_JSR, OP_ST, OP_STI, OP_STR, OP_TRAP}

\* C1: after every ADD, AND, NOT, LD, LDI, LDR or LEA, COND is Z if the value
\* now in DR is 0, N if its bit 15 is 1, and P otherwise.
C1_FlagsFollowDR ==
    (Completed /\ Opcode(instruction) \in FlagOps) =>
        LET v == registers[Bits(instruction, 9, 3)]
        IN  registers[COND] =
                (IF v = 0 THEN FL_ZRO ELSE IF v >= 32768 THEN FL_NEG ELSE FL_POS)

\* an LD of a word with bit 15 set has completed
C1_Witness ==
    /\ Completed
    /\ Opcode(instruction) = OP_LD
    /\ registers[Bits(instruction, 9, 3)] >= 32768
    /\ registers[COND] = FL_NEG

\* C2: at the first fetch PC = 0x3000, COND = Z and the halt flag is clear;
\* at every fetch COND is one of P, Z, N.
C2_ResetState ==
    (phase = "read" /\ cont.kind = "fetch") =>
        /\ registers[COND] \in {FL_POS, FL_ZRO, FL_NEG}
        /\ icount = 0 =>
              (registers[PC] = PC_START /\ registers[COND] = FL_ZRO /\ running)

\* C3: once a TRAP has been dispatched, R7 holds the incremented PC.
C3_TrapLinksR7 ==
    Opcode(instruction) = OP_TRAP => registers[R7] = NextAddr

\* C4: the word last stored by ST, STR or STI at an address other than KBSR,
\* and not overwritten since, is what a read of that address returns.
C4_StoreThenRead ==
    (stored.valid /\ stored.addr # MR_KBSR) =>
        ToUint16(memGet(memory, stored.addr)) = stored.val

\* C5: a read of KBSR whose poll obtained byte c leaves mem[KBSR] = 0x8000 and
\* mem[KBDR] = c and returns 0x8000; one whose poll obtained nothing leaves
\* mem[KBSR] = 0 and mem[KBDR] as it was and returns 0.
C5_KeyboardCoherent ==
    [][(phase = "poll" /\ phase' \notin {"poll", "exited"}) =>
          IF pollKey' # Undefined
             THEN /\ memGet(memory', MR_KBSR) = KeyReady
                  /\ memGet(memory', MR_KBDR) = pollKey'
                  /\ rval' = KeyReady
             ELSE /\ memGet(memory', MR_KBSR) = 0
                  /\ memGet(memory', MR_KBDR) = memGet(memory, MR_KBDR)
                  /\ rval' = 0]_vars

\* the console has delivered a chunk whose first byte is Ctrl-C
CtrlCPending == stdinQ # <<>> /\ Head(stdinQ)[1] = CtrlC

\* C6: once the console has delivered Ctrl-C to the running VM, no further
\* instruction completes, and when the process exits its code is 0.
C6_CtrlCStopsVM ==
    [][(CtrlCPending /\ phase # "load") =>
          (icount' = icount /\ (phase' = "exited" => exitCode' = 0))]_vars

HaltExecuted == Opcode(instruction) = OP_TRAP /\ TrapCode(instruction) = TRAP_HALT

\* C7: once TRAP HALT has executed, no instruction is fetched or executed,
\* registers and memory never change, and the only step left to run is
\* process.exit(0).
C7_HaltStopsTheLoop ==
    /\ [](HaltExecuted =>
            \/ phase = "exited" /\ exitCode = 0
            \/ phase = "halted" /\ ENABLED Exit)
    /\ [][HaltExecuted =>
            /\ registers' = registers
            /\ memory' = memory
            /\ instruction' = instruction
            /\ icount' = icount
            /\ phase' # phase => (phase' = "exited" /\ exitCode' = 0)]_vars

\* the process has exited after a TRAP HALT
C7_Witness == HaltExecuted /\ phase = "exited" /\ exitCode = 0 /\ icount > 0

\* C8: every handler sees PC = (address of its instruction + 1) mod 2^16: the
\* PC-relative addresses of BR, LD, ST, LDI, STI, LEA and JSR, the link in R7
\* and the PC left by the other instructions are all computed from it.
C8_PCAdvancedBeforeHandler ==
    LET op == Opcode(instruction)
        off9 == signExtendSuffix(instruction, 9)
        off11 == signExtendSuffix(instruction, 11)
        rel9 == (NextAddr + off9) % WordMod
    IN  /\ Completed =>
              CASE op = OP_BR ->
                      registers[PC] =
                          (IF BitAnd(Bits(instruction, 9, 3), registers[COND]) # 0
                              THEN rel9 ELSE NextAddr)
                [] op = OP_JSR ->
                      /\ registers[R7] = NextAddr
                      /\ Bits(instruction, 11, 1) = 1 =>
                            registers[PC] = (NextAddr + off11) % WordMod
                [] op = OP_JMP -> TRUE
                [] op = OP_LEA ->
                      /\ registers[Bits(instruction, 9, 3)] = rel9
                      /\ registers[PC] = NextAddr
                [] op = OP_ST -> stored.addr = rel9 /\ registers[PC] = NextAddr
                [] OTHER -> registers[PC] = NextAddr
        /\ (/\ phase \in {"read", "poll"}
            /\ \/ op = OP_LD /\ cont.kind = "load"
               \/ cont.kind \in {"ldi", "sti"}) =>
              (raddr = rel9 /\ registers[PC] = NextAddr)

\* the instruction fetched at 0xFFFF has completed and PC is 0
C8_Witness == Completed /\ iaddr = 65535 /\ registers[PC] = 0

\* C9: BR, JMP, JSR, ST, STI, STR and TRAP leave COND as it was: no step taken
\* while one of them is the current instruction changes COND.
C9_NoFlagOpsKeepCOND ==
    [][(phase # "load" /\ Opcode(instruction') \in NoFlagOps) =>
          registers'[COND] = registers[COND]]_vars

\* TRAP GETC has written a positive byte to R0 and COND is not P
C9_Witness ==
    /\ Completed
    /\ Opcode(instruction) = OP_TRAP
    /\ TrapCode(instruction) = TRAP_GETC
    /\ registers[R0] = 65
    /\ registers[COND] # FL_POS

\* C10: in every state the fetch loop reaches, BR with bits[11:9] = 7 branches
\* to incremented PC + sign-extended offset, BR with bits[11:9] = 0 does not
\* branch, and in general BR branches iff bits[11:9] & COND is not 0.
C10_BranchRule ==
    (Completed /\ Opcode(instruction) = OP_BR) =>
        LET mask == Bits(instruction, 9, 3)
            target == (NextAddr + signExtendSuffix(instruction, 9)) % WordMod
        IN  /\ mask = 7 => registers[PC] = target
            /\ mask = 0 => registers[PC] = NextAddr
            /\ registers[PC] =
                  (IF BitAnd(mask, registers[COND]) # 0 THEN target ELSE NextAddr)

\* ------------------------------------------- images loaded at any origin
\* origins at the reset PC and at the last two addresses of the address space
LoaderOrigins == {PC_START, WordMod - 2, WordMod - 1}

LoaderWords ==
    { 4129,   \* 0x1021 ADD R0, R0, #1
      41984,  \* 0xA400 LDI R2, +0
      61472,  \* 0xF020 TRAP GETC
      61477,  \* 0xF025 TRAP HALT
      65024 } \* 0xFE00 the address of KBSR

LoaderImages ==
    {toBytes(<<o>> \o ws) : o \in LoaderOrigins,
                            ws \in UNION {[1..n -> LoaderWords] : n \in 1..MaxImageLen}}

InitLoader == InitRun(LoaderImages) /\ InitCalls

SpecLoader == InitLoader /\ [][Next]_vars

\* C11: the loader leaves the i-th word after the origin word O of the image
\* at address (O + i) mod 2^16, also when the image reaches or passes 0xFFFF,
\* and changes none of R0..R7 and COND.
C11_LoaderRoundTrip ==
    [][(phase = "load" /\ phase' # "load") =>
          LET O == readUInt16BE(programBuffer, 0)
              n == (Len(programBuffer) - 2) \div 2
          IN  /\ \A i \in 0..(n - 1) :
                    memGet(memory', (O + i) % WordMod) =
                        readUInt16BE(programBuffer, 2 + 2 * i)
              /\ \A r \in 0..(RegCount - 1) : r # PC => registers'[r] = registers[r]]_vars

\* ------------------------------------------------------- bytes on stdout
\* process.stdout.write(s) of a one-unit string: the UTF-8 encoding of the
\* code unit (a lone surrogate is written as U+FFFD)
utf8(c) ==
    IF c < 128 THEN <<c>>
    ELSE IF c < 2048 THEN <<192 + (c \div 64), 128 + (c % 64)>>
    ELSE IF c >= 55296 /\ c <= 57343 THEN <<239, 191, 189>>
    ELSE <<224 + (c \div 4096), 128 + ((c \div 64) % 64), 128 + (c % 64)>>

\* the bytes the console has received for the code units written so far
RECURSIVE stdoutBytes(_)
stdoutBytes(units) ==
    IF units = <<>> THEN <<>> ELSE utf8(Head(units)) \o stdoutBytes(Tail(units))

\* C12: TRAP PUTS starts at the address in R0 and, for each word it reads in
\* address order, emits exactly one byte equal to word & 0xFF if the word is
\* not zero, and stops without output at the first zero word; R0..R7 and
\* memory are left as they were.
C12_PutsLowBytes ==
    /\ []((cont.kind = "puts" /\ loops = 0) => raddr = registers[R0])
    /\ [][(/\ cont.kind = "puts"
           /\ phase = "read"
           /\ raddr # MR_KBSR
           /\ raddr < MemLength
           /\ arrivals' = arrivals) =>
              LET word == memGet(memory, raddr)
              IN  /\ stdoutBytes(out') =
                        stdoutBytes(out) \o (IF word # 0 THEN <<word % 256>> ELSE <<>>)
                  /\ word # 0 => (cont'.kind = "puts" /\ raddr' = raddr + 1)
                  /\ word = 0 => cont'.kind = "fetch"
                  /\ \A r \in R0..R7 : registers'[r] = registers[r]
                  /\ memory' = memory]_vars

\* C13: the scan of PUTS and PUTSP wraps from 0xFFFF to 0, which is what makes
\* it reach a zero word from every R0: the address of its k-th read is
\* (R0 + k) mod 2^16.
C13_ScanWraps ==
    (cont.kind \in {"puts", "putsp"} /\ phase \in {"read", "poll"}) =>
        raddr = (registers[R0] + loops) % WordMod

\* ----------------------------------- images of control-flow instructions
ControlWords ==
    { 4129,   \* 0x1021 ADD R0, R0, #1
      8161,   \* 0x1FE1 ADD R7, R7, #1
      37503,  \* 0x927F NOT R1, R1
      32768,  \* 0x8000 RTI
      53248,  \* 0xD000 the reserved opcode
      65024,  \* 0xFE00 TRAP x00, and the address of KBSR
      61695,  \* 0xF0FF TRAP xFF
      61478,  \* 0xF026 TRAP x26
      18432,  \* 0x4800 JSR +0
      18433,  \* 0x4801 JSR +1
      16448,  \* 0x4040 JSRR R1
      16832,  \* 0x41C0 JSRR R7
      49600,  \* 0xC1C0 JMP R7 (RET)
      41984,  \* 0xA400 LDI R2, +0
      61472,  \* 0xF020 TRAP GETC
      61477 } \* 0xF025 TRAP HALT

ControlImages ==
    {toBytes(<<o>> \o ws) : o \in Origins,
                            ws \in UNION {[1..n -> ControlWords] : n \in 1..MaxImageLen}}

InitControl == InitRun(ControlImages) /\ InitCalls

SpecControl == InitControl /\ [][Next]_vars

\* RTI, the reserved opcode, and TRAP with a vector outside 0x20..0x25
IsNoOp(w) ==
    \/ Opcode(w) \in {OP_RTI, OP_RES}
    \/ Opcode(w) = OP_TRAP /\ TrapCode(w) \notin TRAP_GETC..TRAP_HALT

\* C14: executing RTI, the reserved opcode or a TRAP with an unassigned vector
\* leaves R0..R6, COND, memory and the output as they were and the halt flag
\* clear, and the loop goes on to fetch at the incremented PC.
C14_ReservedAreNoOps ==
    [][(/\ phase = "read"
        /\ cont.kind = "fetch"
        /\ raddr # MR_KBSR
        /\ arrivals' = arrivals
        /\ IsNoOp(memGet(memory, raddr))) =>
            /\ \A r \in (R0..(R7 - 1)) \cup {COND} : registers'[r] = registers[r]
            /\ memory' = memory
            /\ out' = out
            /\ running'
            /\ registers'[PC] = (raddr + 1) % WordMod
            /\ phase' = "read" /\ cont' = FetchCont /\ raddr' = registers'[PC]]_vars

\* the reserved opcode has run after an ADD and the loop is about to fetch
C14_Witness ==
    /\ Completed
    /\ Opcode(instruction) = OP_RES
    /\ registers[R0] = 1
    /\ phase = "read"
    /\ raddr = NextAddr

\* JMP R7
IsRet(w) == Opcode(w) = OP_JMP /\ Bits(w, 6, 3) = R7

\* C15: JSR stores the incremented PC in R7 and then sets PC to incremented
\* PC + sign-extended bits[10:0] (mod 2^16) when bit 11 is 1 and to the
\* contents of R[BaseR] when bit 11 is 0; a JMP R7 that follows a JSR at A,
\* with R7 not written in between, leaves PC = (A + 1) mod 2^16.
C15_JsrLinksAndRetReturns ==
    /\ (Completed /\ Opcode(instruction) = OP_JSR) =>
          /\ registers[R7] = NextAddr
          /\ registers[PC] =
                (IF Bits(instruction, 11, 1) = 1
                    THEN (NextAddr + signExtendSuffix(instruction, 11)) % WordMod
                    ELSE registers[Bits(instruction, 6, 3)])
    /\ (Completed /\ IsRet(instruction) /\ link # Undefined) => registers[PC] = link

\* RET has returned to the word after the JSR at 0x3000
C15_Witness ==
    /\ Completed
    /\ IsRet(instruction)
    /\ link = PC_START + 1
    /\ registers[PC] = link
    /\ registers[R7] = link

\* ---------------------------------------------------- the main variant
\* signExtend of the main variant, for num >= 0
signExtend(num, bitCount) ==
    IF Shr(num, bitCount - 1) % 2 = 1
        THEN BitOr(num, 65535 * Pow2(bitCount))
        ELSE num

\* updateCondFlag of the main variant: its second test reads
\* register[register], a property of a number, which is undefined
updateCondFlagMain(regs, register) ==
    LET indexed == Undefined
    IN  IF regs[register] = 0 THEN [regs EXCEPT ![COND] = FL_ZRO]
        ELSE IF Shr(indexed, 15) = 1 THEN [regs EXCEPT ![COND] = FL_NEG]
        ELSE [regs EXCEPT ![COND] = FL_POS]

\* add of the main variant
addMain(regs, instr) ==
    LET destReg == Bits(instr, 9, 3)
        inputReg == Bits(instr, 6, 3)
        immFlag == Bits(instr, 5, 1)
        immValue == signExtend(BitAnd(instr, 31), 5)
        secondInputReg == Bits(instr, 0, 3)
    IN  updateCondFlagMain(
            IF immFlag = 1
                THEN setReg(regs, destReg, regs[inputReg] + immValue)
                ELSE setReg(regs, destReg, regs[inputReg] + regs[secondInputReg]),
            destReg)

\* -------------------------------------- direct calls, as the test makes them
MaxAdds == 3

runvars == <<registers, memory, running, phase, raddr, cont, instruction, out, loops,
             listeners, stdinQ, exitCode, programBuffer, icount, iaddr, rval, pollKey,
             stored, arrivals, link>>

Widths == {5, 6, 9, 11}

\* a call about to be made
Pending(fn, args) == [fn |-> fn, args |-> args, result |-> Undefined, count |-> 0]

AddWords ==
    { 4739,   \* 0x1283 ADD R1, R2, R3
      4705,   \* 0x1261 ADD R1, R1, #1
      4735,   \* 0x127F ADD R1, R1, #-1
      5185,   \* 0x1441 ADD R2, R1, R1
      4143,   \* 0x102F ADD R0, R0, #15
      5744 }  \* 0x1670 ADD R3, R1, #-16

InitTest ==
    /\ InitRun({toBytes(<<PC_START, 61477>>)})
    /\ \/ called = NoCall
       \/ \E v \in 0..(WordMod - 1), w \in Widths :
              called = Pending("signExtendSuffix", <<v, w>>)
       \/ \E w \in Widths : \E v \in 0..(Pow2(w) - 1) :
              called = Pending("signExtend", <<v, w>>)
    /\ mainRegisters = [r \in 0..(RegCount - 1) |-> 0]

CallSignExtendSuffix ==
    /\ called.fn = "signExtendSuffix"
    /\ called.count = 0
    /\ called' = [called EXCEPT !.result = signExtendSuffix(called.args[1], called.args[2]),
                                !.count = 1]
    /\ UNCHANGED mainRegisters
    /\ UNCHANGED runvars

CallSignExtend ==
    /\ called.fn = "signExtend"
    /\ called.count = 0
    /\ called' = [called EXCEPT !.result = signExtend(called.args[1], called.args[2]),
                                !.count = 1]
    /\ UNCHANGED mainRegisters
    /\ UNCHANGED runvars

CallAdd ==
    /\ called.fn \in {"none", "add"}
    /\ called.count < MaxAdds
    /\ \E instr \in AddWords :
          /\ mainRegisters' = addMain(mainRegisters, instr)
          /\ called' = [fn |-> "add", args |-> <<instr>>, result |-> Undefined,
                        count |-> called.count + 1]
    /\ UNCHANGED runvars

NextTest == CallSignExtendSuffix \/ CallSignExtend \/ CallAdd

SpecTest == InitTest /\ [][NextTest]_vars

\* C16: for every 16-bit v and w in {5, 6, 9, 11}, signExtendSuffix(v, w) is a
\* word in 0..0xFFFF whose low w bits are those of v and whose bits w..15 are
\* all 1 if bit w-1 of v is 1 and all 0 otherwise.
C16_SignExtendSuffix ==
    (called.fn = "signExtendSuffix" /\ called.count = 1) =>
        LET v == called.args[1]
            w == called.args[2]
            r == called.result
        IN  /\ r \in 0..(WordMod - 1)
            /\ r % Pow2(w) = v % Pow2(w)
            /\ r \div Pow2(w) =
                  (IF (v \div Pow2(w - 1)) % 2 = 1 THEN Pow2(16 - w) - 1 ELSE 0)

\* a negative 5-bit suffix of a word with other bits set above it
C16_Witness ==
    /\ called.fn = "signExtendSuffix"
    /\ called.count = 1
    /\ called.args = <<4656, 5>>
    /\ called.result = 65520

\* C17: for bitCount in {5, 6, 9, 11} and an argument in 0..2^bitCount-1, the
\* signExtend of the main variant returns the argument itself when its bit
\* bitCount-1 is 0, and otherwise the 16-bit word that is the argument with
\* bits bitCount..15 set.
C17_SignExtendOfMain ==
    (called.fn = "signExtend" /\ called.count = 1) =>
        LET num == called.args[1]
            bitCount == called.args[2]
            r == called.result
        IN  IF (num \div Pow2(bitCount - 1)) % 2 = 0
               THEN r = num
               ELSE r \in 0..(WordMod - 1) /\ r = num + (WordMod - Pow2(bitCount))

\* the flag rule applied to a 16-bit result
FlagOf(v) == IF v = 0 THEN FL_ZRO ELSE IF v >= 32768 THEN FL_NEG ELSE FL_POS

\* C18: a call of the add of the main variant with an ADD word leaves
\* DR = (SR1 + second operand) mod 2^16, the second operand being R[bits[2:0]]
\* or the sign-extended imm5, and COND = Z, N or P by that result.
C18_AddOfMain ==
    [][(called'.fn = "add" /\ called'.count = called.count + 1) =>
          LET instr == called'.args[1]
              imm5 == instr % 32
              operand == IF (instr \div 32) % 2 = 1
                            THEN (IF imm5 >= 16 THEN imm5 + (WordMod - 32) ELSE imm5)
                            ELSE mainRegisters[instr % 8]
              sum == (mainRegisters[(instr \div 64) % 8] + operand) % WordMod
          IN  /\ mainRegisters'[(instr \div 512) % 8] = sum
              /\ mainRegisters'[COND] = FlagOf(sum)]_vars

\* the bytes of the chunks in q, in order
RECURSIVE BytesOf(_)
BytesOf(q) == IF q = <<>> THEN <<>> ELSE Head(q) \o BytesOf(Tail(q))

\* C19: a poll that obtains input takes exactly the first pending byte: the
\* KBSR read reports that byte, and every byte after it is still pending, in
\* order, for later KBSR reads and GETC/IN traps.
C19_PollConsumesOneByte ==
    [][(/\ phase = "poll"
        /\ stdinQ' # stdinQ
        /\ arrivals' = arrivals
        /\ phase' # "exited") =>
            /\ pollKey' = Head(BytesOf(stdinQ))
            /\ BytesOf(stdinQ') = Tail(BytesOf(stdinQ))]_vars

\* ------------------------------------------- programs that use the keyboard
KeyboardPrograms ==
    { <<40961, 2046, 65024>>,   \* LDI R0, +1; BRzp -2; .FILL xFE00: busy-wait on KBSR
      <<41984, 65024, 61477>>,  \* LDI R2, +0; .FILL xFE00 (TRAP x00); HALT
      <<61472, 61477>>,         \* GETC; HALT
      <<61475, 61473>> }        \* IN; OUT

KeyboardImages == {toBytes(<<PC_START>> \o ws) : ws \in KeyboardPrograms}

InitKeyboard == InitRun(KeyboardImages) /\ InitCalls

\* the timer of sleep(5) fires: a pending race is eventually resolved
FairSpecKeyboard == InitKeyboard /\ [][Next]_vars /\ WF_vars(PollTimeout)

\* C20: every read of KBSR completes, with or without input: a pending poll
\* always ends, and when it returns to the program the read yields 0x8000 or
\* 0, so a busy-wait on KBSR keeps executing instructions.
C20_PollNeverBlocks ==
    /\ (phase = "poll") ~> (phase # "poll")
    /\ [][(phase = "poll" /\ phase' \notin {"poll", "exited"}) =>
              rval' \in {0, KeyReady}]_vars

\* the busy-wait has gone round its loop without any input having arrived
C20_Witness ==
    /\ Completed
    /\ icount >= 3
    /\ arrivals = 0
    /\ iaddr = PC_START
    /\ Opcode(instruction) = OP_LDI
    /\ pollKey = Undefined
    /\ rval = 0

\* ------------------------------------ programs whose addresses wrap around
\* LD R2, +2; STR R2, R1, #0; JMP R1; X: copies the instruction X to address 0
\* and runs it there, with incremented PC = 1
AtZero(x) == <<9218, 29760, 49216, x>>

WrapPrograms ==
    { AtZero(10238),            \* 0x27FE LD R3, #-2
      AtZero(43006),            \* 0xA7FE LDI R3, #-2
      AtZero(14334),            \* 0x37FE ST R3, #-2
      AtZero(47102),            \* 0xB7FE STI R3, #-2
      AtZero(59390),            \* 0xE7FE LEA R3, #-2
      AtZero(4094),             \* 0x0FFE BRnzp #-2
      AtZero(20478),            \* 0x4FFE JSR #-2
      <<9727>>,                 \* 0x25FF LD R2, #-1
      <<46079>>,                \* 0xB3FF STI R1, #-1
      <<26239>>,                \* 0x667F LDR R3, R1, #-1 with R1 = 0
      <<29823>>,                \* 0x747F STR R2, R1, #-1 with R1 = 0
      <<37503, 26177>>,         \* NOT R1, R1; LDR R3, R1, #1
      <<37503, 29761>>,         \* NOT R1, R1; STR R2, R1, #1
      <<41984, 65024, 61477>>,  \* LDI R2, +0; .FILL xFE00 (TRAP x00); HALT
      <<61472, 61477>> }        \* GETC; HALT

WrapImages == {toBytes(<<PC_START>> \o ws) : ws \in WrapPrograms}

InitWrap == InitRun(WrapImages) /\ InitCalls

SpecWrap == InitWrap /\ [][Next]_vars

\* C21: the effective address of BR, JSR, LD, ST, LDI, STI and LEA is
\* (incremented PC + sign-extended offset) mod 2^16 and that of LDR and STR is
\* (R[BaseR] + sign-extended offset6) mod 2^16: the address used lies in
\* 0..0xFFFF, and a negative offset from a low base wraps to high memory.
C21_AddressesWrap ==
    LET op == Opcode(instruction)
        rel9 == (NextAddr + signExtendSuffix(instruction, 9)) % WordMod
        rel11 == (NextAddr + signExtendSuffix(instruction, 11)) % WordMod
        base6 == (registers[Bits(instruction, 6, 3)] + signExtendSuffix(instruction, 6))
                     % WordMod
    IN  /\ Completed =>
              /\ (op = OP_BR /\ BitAnd(Bits(instruction, 9, 3), registers[COND]) # 0) =>
                    registers[PC] = rel9
              /\ (op = OP_JSR /\ Bits(instruction, 11, 1) = 1) => registers[PC] = rel11
              /\ op = OP_LEA => registers[Bits(instruction, 9, 3)] = rel9
              /\ op = OP_ST => stored.addr = rel9
              /\ op = OP_STR => stored.addr = base6
        /\ phase \in {"read", "poll"} =>
              /\ (cont.kind = "load" /\ op = OP_LD) => raddr = rel9
              /\ (cont.kind = "load" /\ op = OP_LDR) => raddr = base6
              /\ cont.kind \in {"ldi", "sti"} => raddr = rel9
              /\ cont.kind \in {"ldi", "sti"} \/ (cont.kind = "load" /\ op # OP_LDI) =>
                    raddr \in 0..(WordMod - 1)

\* LD with offset -2, executed at address 0, is reading address 0xFFFF
C21_Witness ==
    /\ phase = "read"
    /\ cont.kind = "load"
    /\ Opcode(instruction) = OP_LD
    /\ iaddr = 0
    /\ raddr = WordMod - 1

\* --------------------------------------------- images of ADD, AND and NOT
ArithWords ==
    { 4129,   \* 0x1021 ADD R0, R0, #1
      4159,   \* 0x103F ADD R0, R0, #-1
      5185,   \* 0x1441 ADD R2, R1, R1
      4673,   \* 0x1241 ADD R1, R1, R1
      7777,   \* 0x1E61 ADD R7, R1, #1
      20512,  \* 0x5020 AND R0, R0, #0
      21568,  \* 0x5440 AND R2, R1, R0
      21104,  \* 0x5270 AND R1, R1, #-16
      22127,  \* 0x566F AND R3, R1, #15
      37503,  \* 0x927F NOT R1, R1
      36927,  \* 0x903F NOT R0, R0
      9216,   \* 0x2400 LD R2, +0
      41984,  \* 0xA400 LDI R2, +0
      65024,  \* 0xFE00 the address of KBSR
      61472,  \* 0xF020 TRAP GETC
      61477 } \* 0xF025 TRAP HALT

ArithImages ==
    {toBytes(<<PC_START>> \o ws) : ws \in UNION {[1..n -> ArithWords] : n \in 1..MaxImageLen}}

InitArith == InitRun(ArithImages) /\ InitCalls

SpecArith == InitArith /\ [][Next]_vars

\* the word whose bit i is 1 exactly when bit i of a and bit i of b are 1
RECURSIVE BitwiseAnd(_, _, _)
BitwiseAnd(a, b, i) ==
    IF i > 15 THEN 0
    ELSE ((a \div Pow2(i)) % 2) * ((b \div Pow2(i)) % 2) * Pow2(i) + BitwiseAnd(a, b, i + 1)

\* C22: ADD leaves DR = (R[SR1] + operand) mod 2^16 and AND leaves
\* DR = R[SR1] & operand, the operand being R[bits[2:0]] when bit 5 is 0 and
\* the sign-extended imm5 when bit 5 is 1; no other general register, no
\* memory cell and not PC (beyond the increment of the fetch) is changed.
C22_AddAndResults ==
    [][(/\ phase = "read"
        /\ cont.kind = "fetch"
        /\ raddr # MR_KBSR
        /\ arrivals' = arrivals
        /\ Opcode(memGet(memory, raddr)) \in {OP_ADD, OP_AND}) =>
            LET w == memGet(memory, raddr)
                dr == (w \div 512) % 8
                sr1 == (w \div 64) % 8
                imm5 == w % 32
                operand == IF (w \div 32) % 2 = 1
                              THEN (IF imm5 >= 16 THEN imm5 + (WordMod - 32) ELSE imm5)
                              ELSE registers[w % 8]
                result == IF Opcode(w) = OP_ADD
                             THEN (registers[sr1] + operand) % WordMod
                             ELSE BitwiseAnd(registers[sr1], operand, 0)
            IN  /\ registers'[dr] = result
                /\ \A r \in R0..R7 : r # dr => registers'[r] = registers[r]
                /\ memory' = memory
                /\ registers'[PC] = (raddr + 1) % WordMod]_vars

\* 0xFFFF + 0xFFFF has wrapped to 0xFFFE
C22_Witness ==
    /\ Completed
    /\ instruction = 5185
    /\ registers[1] = 65535
    /\ registers[2] = 65534

\* C23: TRAP PUTSP starts at the address in R0 and, for each non-zero word it
\* reads, emits the low byte and then the high byte if that is not zero, and
\* goes on to the next word; only a word that is entirely zero ends it.
C23_PutspBytes ==
    /\ []((cont.kind = "putsp" /\ loops = 0) => raddr = registers[R0])
    /\ [][(/\ cont.kind = "putsp"
           /\ phase = "read"
           /\ raddr # MR_KBSR
           /\ raddr < MemLength
           /\ arrivals' = arrivals) =>
              LET word == memGet(memory, raddr)
                  low == word % 256
                  high == word \div 256
                  emitted == IF word = 0 THEN <<>>
                             ELSE IF high # 0 THEN <<low, high>>
                             ELSE <<low>>
              IN  /\ stdoutBytes(out') = stdoutBytes(out) \o emitted
                  /\ word # 0 => (cont'.kind = "putsp" /\ raddr' = raddr + 1)
                  /\ word = 0 => cont'.kind = "fetch"]_vars

\* how many of the registered 'data' listeners are of the given kind
Registered(kind) == Cardinality({i \in 1..Len(listeners) : listeners[i] = kind})

\* C24: once a poll has returned, with or without a key, none of its one-shot
\* listeners is left registered: while run is suspended in a poll or in
\* GETC/IN exactly one one-shot listener exists, the one of that wait, so a
\* byte delivered then goes to it; and the Ctrl-C listener installed by run
\* stays registered throughout.
C24_NoStaleListeners ==
    /\ [](/\ phase \in {"read", "halted"} => Registered("once") = 0
          /\ phase \in {"poll", "getc"} => Registered("once") = 1
          /\ phase # "load" => Registered("ctrlc") = 1)
    /\ [][(phase \in {"poll", "getc"} /\ stdinQ' # stdinQ /\ arrivals' = arrivals
             /\ phase' # "exited") =>
              IF phase = "poll"
                 THEN pollKey' = Head(stdinQ)[1]
                 ELSE registers'[R0] = Head(stdinQ)[1]]_vars

\* the busy-wait's first poll timed out and its second poll got the byte that
\* arrived afterwards
C24_Witness ==
    /\ Completed
    /\ icount >= 3
    /\ iaddr = PC_START
    /\ Opcode(instruction) = OP_LDI
    /\ pollKey = 65
    /\ registers[R0] = KeyReady
    /\ listeners = <<"ctrlc">>

====
